---------------------------- MODULE Spec2Model ----------------------------
(***************************************************************************)
(* Model of the template function library of xo (internal/funcs.go and the *)
(* template item types it works on).                                       *)
(*                                                                         *)
(* Text is modelled as a sequence of tokens: building a string by          *)
(* concatenation is appending tokens.  A token is a record [k, s, n]:      *)
(*   k = "text"      a literal piece of text s                             *)
(*   k = "NthParam"  the result of Loader.NthParam(n)                      *)
(*   k = "Escape"    the result of Loader.Escape(n, s)                     *)
(* Identifiers handled by shortname are sequences of one-character         *)
(* strings, so that taking initials and appending a suffix are computed.   *)
(***************************************************************************)
EXTENDS Integers, Sequences, FiniteSets, TLC

VARIABLES
    a,                  \* the ArgType configuration the funcs are bound to
    in,                 \* the schema model values the funcs are called with
    ShortNameTypeMap,   \* a.ShortNameTypeMap, the short name cache
    call,               \* the last template func call: its arguments and result
    warnings,           \* what log.Printf has written, in order
    rendered,           \* the template funcs called so far in this generation run
    generated           \* per bridge func, the texts it has returned, in order

vars == <<a, in, ShortNameTypeMap, call, warnings, rendered, generated>>

-----------------------------------------------------------------------------
(* Bounds of the model *)

MaxFields == 3
MaxIgnore == 2
MaxStartCount == 2

-----------------------------------------------------------------------------
(* Text tokens *)

T(s) == [k |-> "text", s |-> s, n |-> 0]

SchemaEsc == 0
TableEsc == 1
ColumnEsc == 2

\* Loader.NthParam(i): the dialect's numbering function applied to i
NthParam(i) == [k |-> "NthParam", s |-> "", n |-> i]

\* Loader.Escape(typ, s)
Escape(typ, s) == [k |-> "Escape", s |-> s, n |-> typ]

Range(s) == {s[i] : i \in 1..Len(s)}

-----------------------------------------------------------------------------
(* Schema model: fields and columns *)

Field(name, typ, colName, notNull) ==
    [Name |-> name, Type |-> typ,
     Col |-> [ColumnName |-> colName, NotNull |-> notNull], Comment |-> ""]

\* The fields the SQL clause builders are called with.
SQLFieldPool ==
    { Field("ID", "int", "id", TRUE),
      Field("Name", "string", "name", TRUE),
      Field("Loc", "geo.Point", "loc", TRUE),
      Field("is_deleted", "bool", "is_deleted", TRUE) }

\* Field names are unique within one field list.
UniqueNames(fs) == \A i, j \in 1..Len(fs) : fs[i].Name = fs[j].Name => i = j

SeqsUpTo(S, n) == UNION {[1..m -> S] : m \in 0..n}

FieldLists == {fs \in SeqsUpTo(SQLFieldPool, MaxFields) : UniqueNames(fs)}

\* The fields whose names are given as ignoreNames; "Other" names no field of
\* any list.
IgnorePool ==
    { Field("Name", "string", "name", TRUE),
      Field("is_deleted", "bool", "is_deleted", TRUE),
      Field("Other", "int", "other", TRUE) }

IgnoreFieldLists == SeqsUpTo(IgnorePool, MaxIgnore)

\* ignoreNames ...string, for the funcs that take names
NamesOf(fs) == [i \in 1..Len(fs) |-> fs[i].Name]

Separators == {", ", " AND "}

Prefixes == {"t"}

-----------------------------------------------------------------------------
(* colname *)

colname(args, col) ==
    IF args.EscapeColumnNames
    THEN Escape(ColumnEsc, col.ColumnName)
    ELSE T(col.ColumnName)

\* the set built from the variadic ignoreNames ...string
ignoreOfNames(ignoreNames) == Range(ignoreNames)

\* the set built from ignoreNames []*Field
ignoreOfFields(ignoreNames) == {f.Name : f \in Range(ignoreNames)}

-----------------------------------------------------------------------------
(* colnames, colnamesmulti *)

RECURSIVE colnamesLoop(_, _, _, _, _, _)
colnamesLoop(args, fields, ignore, k, str, i) ==
    IF k > Len(fields) THEN str
    ELSE LET f == fields[k] IN
         IF f.Name \in ignore
         THEN colnamesLoop(args, fields, ignore, k + 1, str, i)
         ELSE LET s1 == IF i # 0 THEN str \o <<T(", ")>> ELSE str
                  s2 == s1 \o <<colname(args, f.Col)>>
              IN colnamesLoop(args, fields, ignore, k + 1, s2, i + 1)

\* colnames with the ignore test turned round: the ignored fields are the ones
\* listed
colnames_IgnoreInverted(args, fields, ignoreNames) ==
    colnamesLoop(args, fields,
                 {f.Name : f \in Range(fields)} \ ignoreOfNames(ignoreNames), 1, <<>>, 0)

colnames(args, fields, ignoreNames) ==
    colnamesLoop(args, fields, ignoreOfNames(ignoreNames), 1, <<>>, 0)

colnamesmulti(args, fields, ignoreNames) ==
    colnamesLoop(args, fields, ignoreOfFields(ignoreNames), 1, <<>>, 0)

-----------------------------------------------------------------------------
(* colnamesgeo, colnamesgeomulti *)

RECURSIVE colnamesgeoLoop(_, _, _, _, _, _)
colnamesgeoLoop(args, fields, ignore, k, str, i) ==
    IF k > Len(fields) THEN str
    ELSE LET f == fields[k] IN
         IF f.Name \in ignore
         THEN colnamesgeoLoop(args, fields, ignore, k + 1, str, i)
         ELSE LET s1 == IF i # 0 THEN str \o <<T(", ")>> ELSE str
                  s2 == IF f.Type \in args.GeoInfoTypeMap
                        THEN s1 \o <<T("ST_AsBinary("), colname(args, f.Col), T(")")>>
                        ELSE s1 \o <<colname(args, f.Col)>>
              IN colnamesgeoLoop(args, fields, ignore, k + 1, s2, i + 1)

colnamesgeo(args, fields, ignoreNames) ==
    colnamesgeoLoop(args, fields, ignoreOfNames(ignoreNames), 1, <<>>, 0)

colnamesgeomulti(args, fields, ignoreNames) ==
    colnamesgeoLoop(args, fields, ignoreOfFields(ignoreNames), 1, <<>>, 0)

-----------------------------------------------------------------------------
(* colnamesquery, colnamesquerymulti *)

\* The loop of colnamesquerymulti; colnamesquery is the same loop with i
\* starting at 0 and the separator test i != 0.  st = [str, i, skipDeleted].
RECURSIVE colnamesqueryLoop(_, _, _, _, _, _, _)
colnamesqueryLoop(args, fields, ignore, sep, startCount, k, st) ==
    IF k > Len(fields) THEN st
    ELSE LET f == fields[k] IN
         IF f.Name \in ignore
         THEN colnamesqueryLoop(args, fields, ignore, sep, startCount, k + 1, st)
         ELSE LET skip == IF f.Name = "is_deleted" THEN TRUE ELSE st.skipDeleted
                  s1 == IF st.i > startCount THEN st.str \o <<T(sep)>> ELSE st.str
                  s2 == IF f.Type \in args.GeoInfoTypeMap
                        THEN s1 \o <<colname(args, f.Col), T(" = "), T("ST_GeomFromWKB(?)")>>
                        ELSE s1 \o <<colname(args, f.Col), T(" = "), NthParam(st.i)>>
              IN colnamesqueryLoop(args, fields, ignore, sep, startCount, k + 1,
                                   [str |-> s2, i |-> st.i + 1, skipDeleted |-> skip])

\* the tail without the skipDeleted test
colnamesqueryTail_NoSkipDeleted(st, hasDeletedField, sep) ==
    IF hasDeletedField
    THEN st.str \o <<T(sep)>> \o <<T("is_deleted = false")>>
    ELSE st.str

\* the statements after the loop
colnamesqueryTail(st, hasDeletedField, sep) ==
    IF hasDeletedField /\ ~st.skipDeleted
    THEN st.str \o <<T(sep)>> \o <<T("is_deleted = false")>>
    ELSE st.str

colnamesquery(args, fields, hasDeletedField, sep, ignoreNames) ==
    colnamesqueryTail(
        colnamesqueryLoop(args, fields, ignoreOfNames(ignoreNames), sep, 0, 1,
                          [str |-> <<>>, i |-> 0, skipDeleted |-> FALSE]),
        hasDeletedField, sep)

colnamesquerymulti(args, fields, hasDeletedField, sep, startCount, ignoreNames) ==
    colnamesqueryTail(
        colnamesqueryLoop(args, fields, ignoreOfFields(ignoreNames), sep, startCount, 1,
                          [str |-> <<>>, i |-> startCount, skipDeleted |-> FALSE]),
        hasDeletedField, sep)

-----------------------------------------------------------------------------
(* colprefixnames *)

RECURSIVE colprefixnamesLoop(_, _, _, _, _, _, _)
colprefixnamesLoop(args, fields, prefix, ignore, k, str, i) ==
    IF k > Len(fields) THEN str
    ELSE LET f == fields[k] IN
         IF f.Name \in ignore
         THEN colprefixnamesLoop(args, fields, prefix, ignore, k + 1, str, i)
         ELSE LET s1 == IF i # 0 THEN str \o <<T(", ")>> ELSE str
                  s2 == s1 \o <<T(prefix), T("."), colname(args, f.Col)>>
              IN colprefixnamesLoop(args, fields, prefix, ignore, k + 1, s2, i + 1)

colprefixnames(args, fields, prefix, ignoreNames) ==
    colprefixnamesLoop(args, fields, prefix, ignoreOfNames(ignoreNames), 1, <<>>, 0)

-----------------------------------------------------------------------------
(* colvals, colvalsmulti *)

RECURSIVE colvalsLoop(_, _, _, _, _, _)
colvalsLoop(args, fields, ignore, k, str, i) ==
    IF k > Len(fields) THEN str
    ELSE LET f == fields[k] IN
         IF f.Name \in ignore
         THEN colvalsLoop(args, fields, ignore, k + 1, str, i)
         ELSE LET s1 == IF i # 0 THEN str \o <<T(", ")>> ELSE str
                  s2 == IF f.Type \in args.GeoInfoTypeMap
                        THEN s1 \o <<T("ST_GeomFromWKB(?)")>>
                        ELSE s1 \o <<NthParam(i)>>
              IN colvalsLoop(args, fields, ignore, k + 1, s2, i + 1)

\* colvals with i++ moved into the non-geometry branch: a geometry-typed field
\* takes no position
RECURSIVE colvalsLoop_GeoNoPosition(_, _, _, _, _, _)
colvalsLoop_GeoNoPosition(args, fields, ignore, k, str, i) ==
    IF k > Len(fields) THEN str
    ELSE LET f == fields[k] IN
         IF f.Name \in ignore
         THEN colvalsLoop_GeoNoPosition(args, fields, ignore, k + 1, str, i)
         ELSE LET s1 == IF str # <<>> THEN str \o <<T(", ")>> ELSE str
              IN IF f.Type \in args.GeoInfoTypeMap
                 THEN colvalsLoop_GeoNoPosition(args, fields, ignore, k + 1,
                                                s1 \o <<T("ST_GeomFromWKB(?)")>>, i)
                 ELSE colvalsLoop_GeoNoPosition(args, fields, ignore, k + 1,
                                                s1 \o <<NthParam(i)>>, i + 1)

colvals_GeoNoPosition(args, fields, ignoreNames) ==
    colvalsLoop_GeoNoPosition(args, fields, ignoreOfNames(ignoreNames), 1, <<>>, 0)

colvals(args, fields, ignoreNames) ==
    colvalsLoop(args, fields, ignoreOfNames(ignoreNames), 1, <<>>, 0)

colvalsmulti(args, fields, ignoreNames) ==
    colvalsLoop(args, fields, ignoreOfFields(ignoreNames), 1, <<>>, 0)

-----------------------------------------------------------------------------
(* fieldnames, fieldnamesmulti *)

RECURSIVE fieldnamesLoop(_, _, _, _, _, _)
fieldnamesLoop(fields, prefix, ignore, k, str, i) ==
    IF k > Len(fields) THEN str
    ELSE LET f == fields[k] IN
         IF f.Name \in ignore
         THEN fieldnamesLoop(fields, prefix, ignore, k + 1, str, i)
         ELSE LET s1 == IF i # 0 THEN str \o <<T(", ")>> ELSE str
                  s2 == s1 \o <<T(prefix), T("."), T(f.Name)>>
              IN fieldnamesLoop(fields, prefix, ignore, k + 1, s2, i + 1)

fieldnames(fields, prefix, ignoreNames) ==
    fieldnamesLoop(fields, prefix, ignoreOfNames(ignoreNames), 1, <<>>, 0)

fieldnamesmulti(fields, prefix, ignoreNames) ==
    fieldnamesLoop(fields, prefix, ignoreOfFields(ignoreNames), 1, <<>>, 0)

-----------------------------------------------------------------------------
(* colcount *)

RECURSIVE colcountLoop(_, _, _, _)
colcountLoop(fields, ignore, k, i) ==
    IF k > Len(fields) THEN i
    ELSE IF fields[k].Name \in ignore
         THEN colcountLoop(fields, ignore, k + 1, i)
         ELSE colcountLoop(fields, ignore, k + 1, i + 1)

\* colcount counting from 0
colcount_ZeroBased(fields, ignoreNames) ==
    colcountLoop(fields, ignoreOfNames(ignoreNames), 1, 0)

colcount(fields, ignoreNames) ==
    colcountLoop(fields, ignoreOfNames(ignoreNames), 1, 1)

-----------------------------------------------------------------------------
(* The SQL clause builders applied to a field list and an ignore list *)

NoCall == [fn |-> "none"]

NoInput == [fields |-> <<>>, ignore |-> <<>>]

\* The configuration maps of the ArgType.
ToPBTypeMap == ("int" :> "int64") @@ ("[]byte" :> "bytes") @@ ("uint8" :> "uint32")
IncompatilbePBType == {"bytes"}
WrapperTypeMap == ("sql.NullString" :> "StringValue") @@ ("sql.NullInt64" :> "Int64Value")
ImportMap ==
    ("sql.NullString" :> "google/protobuf/wrappers.proto") @@
    ("sql.NullInt64" :> "google/protobuf/wrappers.proto") @@
    ("time.Time" :> "google/protobuf/timestamp.proto") @@
    ("mysql.NullTime" :> "google/protobuf/timestamp.proto")

\* the known types, each spelled as its characters
KnownTypeMap == {<<"i", "n", "t">>, <<"s", "t", "r", "i", "n", "g">>, <<"b", "o", "o", "l">>}

ArgType(escapeColumnNames, nameConflictSuffix) ==
    [EscapeColumnNames |-> escapeColumnNames,
     GeoInfoTypeMap |-> {"geo.Point"},
     NameConflictSuffix |-> nameConflictSuffix,
     ToPBTypeMap |-> ToPBTypeMap,
     IncompatilbePBType |-> IncompatilbePBType,
     WrapperTypeMap |-> WrapperTypeMap,
     ImportMap |-> ImportMap,
     ServerProtoPathPrefix |-> "server",
     KnownTypeMap |-> KnownTypeMap,
     CustomTypePackage |-> <<>>]

ArgTypes == {ArgType(e, <<"V", "a", "l">>) : e \in BOOLEAN}

InitSQL ==
    /\ a \in ArgTypes
    /\ in \in [fields : FieldLists, ignore : IgnoreFieldLists]
    /\ ShortNameTypeMap = <<>>
    /\ call = NoCall
    /\ warnings = <<>>
    /\ rendered = {}
    /\ generated = <<>>

\* A call of a pure func: it leaves everything but the call record alone.
Returns(fn, start, hasDeletedField, sep, prefix, ret) ==
    /\ call.fn = "none"
    /\ call' = [fn |-> fn, start |-> start, hasDeletedField |-> hasDeletedField,
                sep |-> sep, prefix |-> prefix, ret |-> ret]
    /\ UNCHANGED <<a, in, ShortNameTypeMap, warnings, rendered, generated>>

Call_colnames ==
    Returns("colnames", 0, FALSE, ", ", "", colnames(a, in.fields, NamesOf(in.ignore)))

Call_colnamesmulti ==
    Returns("colnamesmulti", 0, FALSE, ", ", "", colnamesmulti(a, in.fields, in.ignore))

Call_colnamesgeo ==
    Returns("colnamesgeo", 0, FALSE, ", ", "", colnamesgeo(a, in.fields, NamesOf(in.ignore)))

Call_colnamesgeomulti ==
    Returns("colnamesgeomulti", 0, FALSE, ", ", "", colnamesgeomulti(a, in.fields, in.ignore))

Call_colnamesquery ==
    \E hasDeletedField \in BOOLEAN, sep \in Separators :
        Returns("colnamesquery", 0, hasDeletedField, sep, "",
                colnamesquery(a, in.fields, hasDeletedField, sep, NamesOf(in.ignore)))

Call_colnamesquerymulti ==
    \E hasDeletedField \in BOOLEAN, sep \in Separators, startCount \in 0..MaxStartCount :
        Returns("colnamesquerymulti", startCount, hasDeletedField, sep, "",
                colnamesquerymulti(a, in.fields, hasDeletedField, sep, startCount, in.ignore))

Call_colprefixnames ==
    \E prefix \in Prefixes :
        Returns("colprefixnames", 0, FALSE, ", ", prefix,
                colprefixnames(a, in.fields, prefix, NamesOf(in.ignore)))

Call_colvals ==
    Returns("colvals", 0, FALSE, ", ", "", colvals(a, in.fields, NamesOf(in.ignore)))

Call_colvalsmulti ==
    Returns("colvalsmulti", 0, FALSE, ", ", "", colvalsmulti(a, in.fields, in.ignore))

Call_fieldnames ==
    \E prefix \in Prefixes :
        Returns("fieldnames", 0, FALSE, ", ", prefix, fieldnames(in.fields, prefix, NamesOf(in.ignore)))

Call_fieldnamesmulti ==
    \E prefix \in Prefixes :
        Returns("fieldnamesmulti", 0, FALSE, ", ", prefix, fieldnamesmulti(in.fields, prefix, in.ignore))

Call_colcount ==
    Returns("colcount", 0, FALSE, ", ", "", colcount(in.fields, NamesOf(in.ignore)))

NextSQL ==
    \/ Call_colnames
    \/ Call_colnamesmulti
    \/ Call_colnamesgeo
    \/ Call_colnamesgeomulti
    \/ Call_colnamesquery
    \/ Call_colnamesquerymulti
    \/ Call_colprefixnames
    \/ Call_colvals
    \/ Call_colvalsmulti
    \/ Call_fieldnames
    \/ Call_fieldnamesmulti
    \/ Call_colcount

SpecSQL == InitSQL /\ [][NextSQL]_vars

-----------------------------------------------------------------------------
(* getstartcount, and the two clauses of an update statement: the          *)
(* assignments over the fields that are not in the primary key, then the   *)
(* conditions over the primary key fields numbered from getstartcount      *)

\* getstartcount returning the number of fields
getstartcount_CountsAllFields(fields, pkFields) == Len(fields)

getstartcount(fields, pkFields) == Len(fields) - Len(pkFields)

\* the lists of some of the fields, in the order of the type's list
SubLists(fields) ==
    {SelectSeq(fields, LAMBDA f : f \in S) : S \in SUBSET Range(fields)}

InitUpdate ==
    /\ a \in ArgTypes
    /\ in \in [fields : FieldLists, ignore : {<<>>}]
    /\ ShortNameTypeMap = <<>>
    /\ call = NoCall
    /\ warnings = <<>>
    /\ rendered = {}
    /\ generated = <<>>

Call_getstartcount ==
    \E pkFields \in SubLists(in.fields) :
        /\ call.fn = "none"
        /\ call' = [fn |-> "getstartcount", pkFields |-> pkFields,
                    ret |-> getstartcount(in.fields, pkFields)]
        /\ UNCHANGED <<a, in, ShortNameTypeMap, warnings, rendered, generated>>

\* colnamesquery over the fields with the names of the primary key fields
\* ignored, and colnamesquerymulti over the primary key fields from the
\* count getstartcount has returned
Call_colnamesquery_colnamesquerymulti ==
    \E hasDeletedField \in BOOLEAN :
        /\ call.fn = "getstartcount"
        /\ call' = [fn |-> "update", pkFields |-> call.pkFields, start |-> call.ret,
                    hasDeletedField |-> hasDeletedField,
                    set |-> colnamesquery(a, in.fields, FALSE, ", ", NamesOf(call.pkFields)),
                    where |-> colnamesquerymulti(a, call.pkFields, hasDeletedField, " AND ",
                                                 call.ret, <<>>)]
        /\ UNCHANGED <<a, in, ShortNameTypeMap, warnings, rendered, generated>>

NextUpdate == Call_getstartcount \/ Call_colnamesquery_colnamesquerymulti

SpecUpdate == InitUpdate /\ [][NextUpdate]_vars

-----------------------------------------------------------------------------
(* Identifiers: strings as sequences of characters *)

UpperToLower ==
    ("A" :> "a") @@ ("B" :> "b") @@ ("C" :> "c") @@ ("D" :> "d") @@ ("E" :> "e") @@ ("F" :> "f") @@ 
    ("G" :> "g") @@ ("H" :> "h") @@ ("I" :> "i") @@ ("J" :> "j") @@ ("K" :> "k") @@ ("L" :> "l") @@ 
    ("M" :> "m") @@ ("N" :> "n") @@ ("O" :> "o") @@ ("P" :> "p") @@ ("Q" :> "q") @@ ("R" :> "r") @@ 
    ("S" :> "s") @@ ("T" :> "t") @@ ("U" :> "u") @@ ("V" :> "v") @@ ("W" :> "w") @@ ("X" :> "x") @@ 
    ("Y" :> "y") @@ ("Z" :> "z")

IsUpper(c) == c \in DOMAIN UpperToLower
IsLetter(c) == IsUpper(c) \/ c \in {UpperToLower[u] : u \in DOMAIN UpperToLower}

\* strings.ToLower
ToLower(s) == [i \in 1..Len(s) |-> IF IsUpper(s[i]) THEN UpperToLower[s[i]] ELSE s[i]]

\* snaker's initialisms, as far as the type names of the model use them
Initialisms == {<<"I", "D">>}

\* the initialism rs starts with at position i, or the empty string
PeekInitialism(rs, i) ==
    IF i + 1 <= Len(rs) /\ SubSeq(rs, i, i + 1) \in Initialisms
    THEN SubSeq(rs, i, i + 1)
    ELSE <<>>

\* snaker.CamelToSnake: an underscore goes before an upper-case letter that
\* follows a letter and after an initialism; an initialism is taken whole;
\* the result is lower-cased.
RECURSIVE CamelToSnakeLoop(_, _, _, _, _, _)
CamelToSnakeLoop(rs, i, r, lastWasUpper, lastWasLetter, lastWasIsm) ==
    IF i > Len(rs) THEN ToLower(r)
    ELSE LET isUpper == IsUpper(rs[i])
             isLetter == IsLetter(rs[i])
             r1 == IF (lastWasLetter /\ isUpper) \/ (lastWasIsm /\ isLetter)
                   THEN r \o <<"_">> ELSE r
             ism == PeekInitialism(rs, i)
             next == IF ism # <<>> /\ (~lastWasUpper \/ lastWasIsm)
                     THEN ism ELSE <<rs[i]>>
         IN CamelToSnakeLoop(rs, i + Len(next), r1 \o next,
                             isUpper, isLetter, Len(next) > 1)

CamelToSnake(s) == CamelToSnakeLoop(s, 1, <<>>, FALSE, FALSE, FALSE)

\* strings.Split(s, "_"): cur is the piece being read
RECURSIVE SplitLoop(_, _, _, _)
SplitLoop(s, i, cur, out) ==
    IF i > Len(s) THEN Append(out, cur)
    ELSE IF s[i] = "_" THEN SplitLoop(s, i + 1, <<>>, Append(out, cur))
    ELSE SplitLoop(s, i + 1, Append(cur, s[i]), out)

Split(s) == SplitLoop(s, 1, <<>>, <<>>)

\* strings.Join(u, "")
RECURSIVE Join(_)
Join(u) == IF u = <<>> THEN <<>> ELSE Head(u) \o Join(Tail(u))

goReservedNames ==
    (<<"b", "r", "e", "a", "k">> :> <<"b", "r", "k">>) @@
    (<<"c", "a", "s", "e">> :> <<"c", "s">>) @@
    (<<"c", "h", "a", "n">> :> <<"c", "h", "n">>) @@
    (<<"c", "o", "n", "s", "t">> :> <<"c", "n", "s", "t">>) @@
    (<<"c", "o", "n", "t", "i", "n", "u", "e">> :> <<"c", "n", "t">>) @@
    (<<"d", "e", "f", "a", "u", "l", "t">> :> <<"d", "e", "f">>) @@
    (<<"d", "e", "f", "e", "r">> :> <<"d", "f", "r">>) @@
    (<<"e", "l", "s", "e">> :> <<"e", "l", "s">>) @@
    (<<"f", "a", "l", "l", "t", "h", "r", "o", "u", "g", "h">> :> <<"f", "l", "t", "h", "r", "o", "u", "g", "h">>) @@
    (<<"f", "o", "r">> :> <<"f", "r">>) @@
    (<<"f", "u", "n", "c">> :> <<"f", "n">>) @@
    (<<"g", "o">> :> <<"g", "o", "V", "a", "l">>) @@
    (<<"g", "o", "t", "o">> :> <<"g", "t">>) @@
    (<<"i", "f">> :> <<"i", "f", "V", "a", "l">>) @@
    (<<"i", "m", "p", "o", "r", "t">> :> <<"i", "m", "p">>) @@
    (<<"i", "n", "t", "e", "r", "f", "a", "c", "e">> :> <<"i", "f", "a", "c", "e">>) @@
    (<<"m", "a", "p">> :> <<"m", "p">>) @@
    (<<"p", "a", "c", "k", "a", "g", "e">> :> <<"p", "k", "g">>) @@
    (<<"r", "a", "n", "g", "e">> :> <<"r", "n", "g", "e">>) @@
    (<<"r", "e", "t", "u", "r", "n">> :> <<"r", "e", "t">>) @@
    (<<"s", "e", "l", "e", "c", "t">> :> <<"s", "l", "c", "t">>) @@
    (<<"s", "t", "r", "u", "c", "t">> :> <<"s", "t", "r", "c", "t">>) @@
    (<<"s", "w", "i", "t", "c", "h">> :> <<"s", "w", "t", "c", "h">>) @@
    (<<"t", "y", "p", "e">> :> <<"t", "y", "p">>) @@
    (<<"v", "a", "r">> :> <<"v", "r">>) @@
    (<<"e", "r", "r", "o", "r">> :> <<"e">>) @@
    (<<"b", "o", "o", "l">> :> <<"b">>) @@
    (<<"s", "t", "r", "i", "n", "g">> :> <<"s", "t", "r">>) @@
    (<<"b", "y", "t", "e">> :> <<"b", "y", "t">>) @@
    (<<"r", "u", "n", "e">> :> <<"r">>) @@
    (<<"u", "i", "n", "t", "p", "t", "r">> :> <<"u", "p", "t", "r">>) @@
    (<<"i", "n", "t">> :> <<"i">>) @@
    (<<"i", "n", "t", "8">> :> <<"i", "8">>) @@
    (<<"i", "n", "t", "1", "6">> :> <<"i", "1", "6">>) @@
    (<<"i", "n", "t", "3", "2">> :> <<"i", "3", "2">>) @@
    (<<"i", "n", "t", "6", "4">> :> <<"i", "6", "4">>) @@
    (<<"u", "i", "n", "t">> :> <<"u">>) @@
    (<<"u", "i", "n", "t", "8">> :> <<"u", "8">>) @@
    (<<"u", "i", "n", "t", "1", "6">> :> <<"u", "1", "6">>) @@
    (<<"u", "i", "n", "t", "3", "2">> :> <<"u", "3", "2">>) @@
    (<<"u", "i", "n", "t", "6", "4">> :> <<"u", "6", "4">>) @@
    (<<"f", "l", "o", "a", "t", "3", "2">> :> <<"z">>) @@
    (<<"f", "l", "o", "a", "t", "6", "4">> :> <<"f">>) @@
    (<<"c", "o", "m", "p", "l", "e", "x", "6", "4">> :> <<"c">>) @@
    (<<"c", "o", "m", "p", "l", "e", "x", "1", "2", "8">> :> <<"c", "1", "2", "8">>)

\* the default imported packages from xo_package.go.tpl
DefaultConflicts ==
    { <<"s", "q", "l">>,
      <<"d", "r", "i", "v", "e", "r">>,
      <<"c", "s", "v">>,
      <<"e", "r", "r", "o", "r", "s">>,
      <<"f", "m", "t">>,
      <<"r", "e", "g", "e", "x", "p">>,
      <<"s", "t", "r", "i", "n", "g", "s">>,
      <<"t", "i", "m", "e">> }

-----------------------------------------------------------------------------
(* shortname *)

\* the first character of every word of typ that is not empty and not "id"
RECURSIVE initialsLoop(_, _, _)
initialsLoop(words, k, u) ==
    IF k > Len(words) THEN u
    ELSE LET w == words[k] IN
         IF Len(w) > 0 /\ w # <<"i", "d">>
         THEN initialsLoop(words, k + 1, Append(u, SubSeq(w, 1, 1)))
         ELSE initialsLoop(words, k + 1, u)

\* calc the short name, check go reserved names
calcShortName(typ) ==
    LET v == Join(initialsLoop(Split(ToLower(CamelToSnake(typ))), 1, <<>>))
    IN IF v \in DOMAIN goReservedNames THEN goReservedNames[v] ELSE v

\* check short name map; store back to short name map.  [v, cache]
lookupShortName(cache, typ) ==
    IF typ \in DOMAIN cache
    THEN [v |-> cache[typ], cache |-> cache]
    ELSE LET v == calcShortName(typ)
         IN [v |-> v, cache |-> (typ :> v) @@ cache]

\* addScopeConflicts skipping a value of another type instead of panicking
RECURSIVE addScopeConflicts_SkipsUnknown(_, _, _)
addScopeConflicts_SkipsUnknown(scopeConflicts, k, conflicts) ==
    IF k > Len(scopeConflicts) THEN [conflicts |-> conflicts, panic |-> FALSE]
    ELSE LET c == scopeConflicts[k] IN
         IF c.kind \in {"string", "[]*Field", "[]*QueryParam"}
         THEN addScopeConflicts_SkipsUnknown(scopeConflicts, k + 1, conflicts \cup Range(c.names))
         ELSE addScopeConflicts_SkipsUnknown(scopeConflicts, k + 1, conflicts)

\* add scopeConflicts to conflicts; a scope conflict is a string, a []*Field
\* or a []*QueryParam, given here by its kind and the names it holds, or a
\* value of another type.  [conflicts, panic]
RECURSIVE addScopeConflicts(_, _, _)
addScopeConflicts(scopeConflicts, k, conflicts) ==
    IF k > Len(scopeConflicts) THEN [conflicts |-> conflicts, panic |-> FALSE]
    ELSE LET c == scopeConflicts[k] IN
         IF c.kind \in {"string", "[]*Field", "[]*QueryParam"}
         THEN addScopeConflicts(scopeConflicts, k + 1, conflicts \cup Range(c.names))
         ELSE [conflicts |-> conflicts, panic |-> TRUE]

\* append suffix if conflict exists
appendSuffix(args, v, conflicts) ==
    IF v \in conflicts THEN v \o args.NameConflictSuffix ELSE v

\* shortname with the value stored back to the map after the suffix is appended
shortname_StoresSuffixed(args, cache, typ, scopeConflicts) ==
    LET c == addScopeConflicts(scopeConflicts, 1, DefaultConflicts)
        v == IF typ \in DOMAIN cache THEN cache[typ] ELSE calcShortName(typ)
        r == appendSuffix(args, v, c.conflicts)
    IN [panic |-> c.panic,
        ret |-> IF c.panic THEN <<>> ELSE r,
        cache |-> (typ :> r) @@ cache]

\* shortname(typ, scopeConflicts...): [panic, ret, cache], the map as the
\* call leaves it
shortname(args, cache, typ, scopeConflicts) ==
    LET l == lookupShortName(cache, typ)
        c == addScopeConflicts(scopeConflicts, 1, DefaultConflicts)
    IN [panic |-> c.panic,
        ret |-> IF c.panic THEN <<>> ELSE appendSuffix(args, l.v, c.conflicts),
        cache |-> l.cache]

-----------------------------------------------------------------------------
(* shortname called again and again on one ArgType *)

TypeNames ==
    { <<"O", "r", "d", "e", "r", "I", "t", "e", "m">>,
      <<"G", "e", "t", "O", "r", "d", "e", "r">>,
      <<"G", "r", "o", "u", "p">>,
      <<"U", "s", "e", "r", "I", "D">>,
      <<"S", "q", "l", "Q", "u", "e", "r", "y", "L", "o", "g">> }

Scope(kind, names) == [kind |-> kind, names |-> names]

ScopeConflicts ==
    { Scope("string", <<<<"g">>>>),
      Scope("[]*Field", <<<<"o", "i">>, <<"o", "i", "V", "a", "l">>>>),
      Scope("[]*QueryParam", <<<<"g">>>>),
      Scope("int", <<>>) }

MaxScopes == 2

ScopeConflictLists == SeqsUpTo(ScopeConflicts, MaxScopes)

NameConflictSuffixes == {<<"V", "a", "l">>, <<"o">>}

InitShortName ==
    /\ a \in {ArgType(FALSE, suffix) : suffix \in NameConflictSuffixes}
    /\ in = NoInput
    /\ ShortNameTypeMap = <<>>
    /\ call = NoCall
    /\ warnings = <<>>
    /\ rendered = {}
    /\ generated = <<>>

Call_shortname ==
    \E typ \in TypeNames, scopeConflicts \in ScopeConflictLists :
        LET r == shortname(a, ShortNameTypeMap, typ, scopeConflicts) IN
        /\ call.fn = "none"
        /\ call' = [fn |-> "shortname", typ |-> typ, scopeConflicts |-> scopeConflicts,
                    cached |-> typ \in DOMAIN ShortNameTypeMap,
                    panic |-> r.panic, ret |-> r.ret]
        /\ ShortNameTypeMap' = r.cache
        /\ UNCHANGED <<a, in, warnings, rendered, generated>>

\* The template engine splices the returned text into its output (or the run
\* has been aborted and a new one renders with the same ArgType); the next
\* call can follow.
Rendered ==
    /\ call.fn # "none"
    /\ call' = NoCall
    /\ UNCHANGED <<a, in, ShortNameTypeMap, warnings, rendered, generated>>

NextShortName == Call_shortname \/ Rendered

SpecShortName == InitShortName /\ [][NextShortName]_vars

-----------------------------------------------------------------------------
(* retype, convext; type strings and expressions are sequences of          *)
(* one-character strings                                                   *)

HasPrefix(s, prefix) == Len(s) >= Len(prefix) /\ SubSeq(s, 1, Len(prefix)) = prefix

\* strings.Contains(s, c) for a one-character c
Contains(s, c) == \E i \in 1..Len(s) : s[i] = c

SliceOf == <<"[", "]">>

\* the loop of retype.  [typ, prefix]
RECURSIVE stripSlices(_, _)
stripSlices(typ, prefix) ==
    IF HasPrefix(typ, SliceOf)
    THEN stripSlices(SubSeq(typ, Len(SliceOf) + 1, Len(typ)), prefix \o SliceOf)
    ELSE [typ |-> typ, prefix |-> prefix]

\* what retype does behind the loop
qualify(args, st) ==
    IF st.typ \notin args.KnownTypeMap
    THEN LET pkg == IF args.CustomTypePackage # <<>>
                    THEN args.CustomTypePackage \o <<".">> ELSE <<>>
         IN st.prefix \o pkg \o st.typ
    ELSE st.prefix \o st.typ

\* retype with an if where the loop is: one slice marker is stripped
retype_StripsOneSlice(args, typ) ==
    IF Contains(typ, ".") THEN typ
    ELSE IF HasPrefix(typ, SliceOf)
         THEN qualify(args, [typ |-> SubSeq(typ, Len(SliceOf) + 1, Len(typ)), prefix |-> SliceOf])
         ELSE qualify(args, [typ |-> typ, prefix |-> <<>>])

retype(args, typ) ==
    IF Contains(typ, ".") THEN typ
    ELSE qualify(args, stripSlices(typ, <<>>))

SqlNull == <<"s", "q", "l", ".", "N", "u", "l", "l">>

\* f.Type[8:]
Unwrapped(typ) == SubSeq(typ, Len(SqlNull) + 1, Len(typ))

\* convext comparing with the unwrapped type as spelled, not lower-cased
convext_ComparesAsSpelled(prefix, f, t) ==
    LET expr == prefix \o <<".">> \o f.Name IN
    IF f.Type = t.Type THEN expr
    ELSE LET nullable == HasPrefix(f.Type, SqlNull)
             expr1 == IF nullable THEN expr \o <<".">> \o Unwrapped(f.Type) ELSE expr
             ft == IF nullable THEN Unwrapped(f.Type) ELSE f.Type
         IN IF t.Type # ft THEN t.Type \o <<"(">> \o expr1 \o <<")">> ELSE expr1

convext(prefix, f, t) ==
    LET expr == prefix \o <<".">> \o f.Name IN
    IF f.Type = t.Type THEN expr
    ELSE LET nullable == HasPrefix(f.Type, SqlNull)
             expr1 == IF nullable THEN expr \o <<".">> \o Unwrapped(f.Type) ELSE expr
             ft == IF nullable THEN ToLower(Unwrapped(f.Type)) ELSE f.Type
         IN IF t.Type # ft THEN t.Type \o <<"(">> \o expr1 \o <<")">> ELSE expr1

-----------------------------------------------------------------------------
(* retype and convext called on types and fields of the schema model *)

MaxSlices == 2

RECURSIVE Slices(_, _)
Slices(n, typ) == IF n = 0 THEN typ ELSE SliceOf \o Slices(n - 1, typ)

BareTypes ==
    { <<"i", "n", "t">>,
      <<"s", "t", "r", "i", "n", "g">>,
      <<"M", "o", "n", "e", "y">>,
      <<"P", "o", "i", "n", "t">>,
      <<"t", "i", "m", "e", ".", "T", "i", "m", "e">>,
      <<"p", "q", ".", "S", "t", "r", "i", "n", "g", "A", "r", "r", "a", "y">> }

TypeStrings == {Slices(n, bare) : n \in 0..MaxSlices, bare \in BareTypes}

CustomTypePackages == {<<>>, <<"c", "u", "s", "t", "o", "m">>}

ConvName == <<"T", "o", "t", "a", "l">>

ConvTypes ==
    { <<"i", "n", "t">>,
      <<"i", "n", "t", "6", "4">>,
      <<"s", "t", "r", "i", "n", "g">>,
      <<"s", "q", "l", ".", "N", "u", "l", "l", "I", "n", "t", "6", "4">>,
      <<"s", "q", "l", ".", "N", "u", "l", "l", "S", "t", "r", "i", "n", "g">>,
      <<"s", "q", "l", ".", "N", "u", "l", "l", "T", "i", "m", "e">> }

ConvFields == {[Name |-> ConvName, Type |-> typ] : typ \in ConvTypes}

ConvPrefix == <<"o">>

InitTypes ==
    /\ a \in {[ArgType(FALSE, <<"V", "a", "l">>) EXCEPT !.CustomTypePackage = pkg] :
                pkg \in CustomTypePackages}
    /\ in \in [typ : TypeStrings, f : ConvFields, t : ConvFields]
    /\ ShortNameTypeMap = <<>>
    /\ call = NoCall
    /\ warnings = <<>>
    /\ rendered = {}
    /\ generated = <<>>

Call_retype ==
    /\ call.fn = "none"
    /\ call' = [fn |-> "retype", ret |-> retype(a, in.typ)]
    /\ UNCHANGED <<a, in, ShortNameTypeMap, warnings, rendered, generated>>

Call_convext ==
    /\ call.fn = "none"
    /\ call' = [fn |-> "convext", ret |-> convext(ConvPrefix, in.f, in.t)]
    /\ UNCHANGED <<a, in, ShortNameTypeMap, warnings, rendered, generated>>

NextTypes == Call_retype \/ Call_convext

SpecTypes == InitTypes /\ [][NextTypes]_vars

-----------------------------------------------------------------------------
(* TemplateType.String, RelType.String: [panic, s] *)

EnumTemplate == 0
ProcTemplate == 1
TypeTemplate == 2
ForeignKeyTemplate == 3
IndexTemplate == 4
MapTemplate == 5
QueryTypeTemplate == 6
QueryTemplate == 7
OptionalTemplate == 8
TypeProtoTemplate == 9
XOTemplate == 10

Table == 0
View == 1

Panics == [panic |-> TRUE, s |-> ""]
Yields(s) == [panic |-> FALSE, s |-> s]

TemplateType_String(tt) ==
    CASE tt = XOTemplate -> Yields("xo_db")
      [] tt = EnumTemplate -> Yields("enum")
      [] tt = ProcTemplate -> Yields("proc")
      [] tt = TypeTemplate -> Yields("type")
      [] tt = ForeignKeyTemplate -> Yields("foreignkey")
      [] tt = IndexTemplate -> Yields("index")
      [] tt = MapTemplate -> Yields("map")
      [] tt = QueryTypeTemplate -> Yields("querytype")
      [] tt = QueryTemplate -> Yields("query")
      [] tt = OptionalTemplate -> Yields("optional")
      [] tt = TypeProtoTemplate -> Yields("type")
      [] OTHER -> Panics

RelType_String(rt) ==
    CASE rt = Table -> Yields("TABLE")
      [] rt = View -> Yields("VIEW")
      [] OTHER -> Panics

\* TemplateType and RelType are uint: the values a caller can hand in
MaxTemplateType == 12
MaxRelType == 3

TemplateTypes == 0..MaxTemplateType
RelTypes == 0..MaxRelType

Call_TemplateType_String ==
    \E tt \in TemplateTypes :
        LET r == TemplateType_String(tt) IN
        /\ call.fn = "none"
        /\ call' = [fn |-> "TemplateType.String", tt |-> tt, panic |-> r.panic, ret |-> r.s]
        /\ UNCHANGED <<a, in, ShortNameTypeMap, warnings, rendered, generated>>

Call_RelType_String ==
    \E rt \in RelTypes :
        LET r == RelType_String(rt) IN
        /\ call.fn = "none"
        /\ call' = [fn |-> "RelType.String", rt |-> rt, panic |-> r.panic, ret |-> r.s]
        /\ UNCHANGED <<a, in, ShortNameTypeMap, warnings, rendered, generated>>

\* the three places that switch over a kind, called in any order on one ArgType
NextKinds == Call_shortname \/ Call_TemplateType_String \/ Call_RelType_String \/ Rendered

SpecKinds == InitShortName /\ [][NextKinds]_vars

-----------------------------------------------------------------------------
(* goPackageName, ProtoName *)

NotDash(c) == c # "-"
NotUnderscore(c) == c # "_"

\* strings.ReplaceAll(name, "-", ""), then strings.ReplaceAll(name, "_", "")
goPackageName(name) == SelectSeq(SelectSeq(name, NotDash), NotUnderscore)

\* strings.ReplaceAll(name, "-", "_")
ProtoName(name) == [i \in 1..Len(name) |-> IF name[i] = "-" THEN "_" ELSE name[i]]

-----------------------------------------------------------------------------
(* The protobuf bridge.  A generated body is the sequence of its statements, *)
(* each statement given by its format and the field it is made from; a       *)
(* message is the sequence of its field declarations.                        *)

Stmt(k, field, t) ==
    [k |-> k, col |-> field.Col.ColumnName, name |-> field.Name, t |-> t]

Line(k) == [k |-> k, col |-> "", name |-> "", t |-> ""]

\* log.Printf("WARN: %s.%s could be null, skipping!", option.Type.Name, field.Name)
Warning(option, field) == [typ |-> option.Type.Name, name |-> field.Name]

Skipped(option, field) == field.Col.ColumnName \in option.ModelToPBConfig.SkipFields

\* modelToPB, first loop: the statements before the struct literal and the
\* fieldsAssignment of the fields that are not nullable.  st = [body, fa]
RECURSIVE modelToPBAssign(_, _, _, _)
modelToPBAssign(args, option, k, st) ==
    IF k > Len(option.Type.Fields) THEN st
    ELSE LET field == option.Type.Fields[k] IN
         IF Skipped(option, field)
         THEN modelToPBAssign(args, option, k + 1, st)
         ELSE IF ~field.Col.NotNull /\ field.Type # "[]byte"
         THEN modelToPBAssign(args, option, k + 1, st)
         ELSE IF field.Type = "time.Time"
         THEN modelToPBAssign(args, option, k + 1,
                [body |-> Append(st.body, Stmt("TimestampProto", field, "")),
                 fa |-> Append(st.fa, Stmt("assignTimestamp", field, ""))])
         ELSE IF field.Type \in DOMAIN args.ToPBTypeMap
                 /\ args.ToPBTypeMap[field.Type] \notin args.IncompatilbePBType
         THEN modelToPBAssign(args, option, k + 1,
                [body |-> st.body,
                 fa |-> Append(st.fa, Stmt("assignCast", field, args.ToPBTypeMap[field.Type]))])
         ELSE modelToPBAssign(args, option, k + 1,
                [body |-> st.body, fa |-> Append(st.fa, Stmt("assignDirect", field, ""))])

\* the second loop of modelToPB without its SkipFields test
RECURSIVE modelToPBNullable_NoSkipTest(_, _, _, _)
modelToPBNullable_NoSkipTest(args, option, k, st) ==
    IF k > Len(option.Type.Fields) THEN st
    ELSE LET field == option.Type.Fields[k] IN
         IF field.Col.NotNull \/ field.Type = "[]byte"
         THEN modelToPBNullable_NoSkipTest(args, option, k + 1, st)
         ELSE IF field.Type = "mysql.NullTime"
         THEN modelToPBNullable_NoSkipTest(args, option, k + 1,
                [body |-> Append(st.body, Stmt("ifValidTimestampProto", field, "")),
                 log |-> st.log])
         ELSE IF field.Type \in DOMAIN args.WrapperTypeMap
         THEN modelToPBNullable_NoSkipTest(args, option, k + 1,
                [body |-> Append(st.body,
                                 Stmt("ifValidWrapper", field, args.WrapperTypeMap[field.Type])),
                 log |-> st.log])
         ELSE modelToPBNullable_NoSkipTest(args, option, k + 1,
                [body |-> st.body, log |-> Append(st.log, Warning(option, field))])

\* modelToPB, second loop: the guarded statements of the nullable fields and
\* the warnings.  st = [body, log]
RECURSIVE modelToPBNullable(_, _, _, _)
modelToPBNullable(args, option, k, st) ==
    IF k > Len(option.Type.Fields) THEN st
    ELSE LET field == option.Type.Fields[k] IN
         IF field.Col.NotNull \/ field.Type = "[]byte"
         THEN modelToPBNullable(args, option, k + 1, st)
         ELSE IF Skipped(option, field)
         THEN modelToPBNullable(args, option, k + 1, st)
         ELSE IF field.Type = "mysql.NullTime"
         THEN modelToPBNullable(args, option, k + 1,
                [body |-> Append(st.body, Stmt("ifValidTimestampProto", field, "")),
                 log |-> st.log])
         ELSE IF field.Type \in DOMAIN args.WrapperTypeMap
         THEN modelToPBNullable(args, option, k + 1,
                [body |-> Append(st.body,
                                 Stmt("ifValidWrapper", field, args.WrapperTypeMap[field.Type])),
                 log |-> st.log])
         ELSE modelToPBNullable(args, option, k + 1,
                [body |-> st.body, log |-> Append(st.log, Warning(option, field))])

\* what a conversion func returns when option.ModelToPB is not set: ""
NoBody(cache) ==
    [body |-> <<>>, shortName |-> <<>>, pkg |-> <<>>, cache |-> cache, log |-> <<>>]

\* modelToPB(option): [body, shortName, pkg, cache, log]
modelToPB(args, cache, option) ==
    IF ~option.ModelToPB THEN NoBody(cache)
    ELSE LET sn == shortname(args, cache, option.Type.Name, <<>>)
             s1 == modelToPBAssign(args, option, 1, [body |-> <<>>, fa |-> <<>>])
             b1 == s1.body \o <<Line("struct")>> \o s1.fa \o <<Line("endStruct")>>
             s2 == modelToPBNullable(args, option, 1, [body |-> b1, log |-> <<>>])
         IN [body |-> Append(s2.body, Line("return")),
             shortName |-> sn.ret,
             pkg |-> goPackageName(option.ModelToPBConfig.ImportService),
             cache |-> sn.cache,
             log |-> s2.log]

\* PBToModel, first loop.  st = [body, fa]
RECURSIVE PBToModelAssign(_, _, _, _)
PBToModelAssign(args, option, k, st) ==
    IF k > Len(option.Type.Fields) THEN st
    ELSE LET field == option.Type.Fields[k] IN
         IF Skipped(option, field)
         THEN PBToModelAssign(args, option, k + 1, st)
         ELSE IF ~field.Col.NotNull /\ field.Type # "[]byte"
         THEN PBToModelAssign(args, option, k + 1, st)
         ELSE IF field.Type = "time.Time"
         THEN PBToModelAssign(args, option, k + 1,
                [body |-> Append(st.body, Stmt("Timestamp", field, "")),
                 fa |-> Append(st.fa, Stmt("assignTimestamp", field, ""))])
         ELSE IF field.Type \in DOMAIN args.ToPBTypeMap
                 /\ args.ToPBTypeMap[field.Type] \notin args.IncompatilbePBType
         THEN PBToModelAssign(args, option, k + 1,
                [body |-> st.body,
                 fa |-> Append(st.fa, Stmt("assignCast", field, field.Type))])
         ELSE PBToModelAssign(args, option, k + 1,
                [body |-> st.body, fa |-> Append(st.fa, Stmt("assignDirect", field, ""))])

\* the second loop of PBToModel without its log.Printf
RECURSIVE PBToModelNullable_NoWarning(_, _, _, _)
PBToModelNullable_NoWarning(args, option, k, st) ==
    IF k > Len(option.Type.Fields) THEN st
    ELSE LET field == option.Type.Fields[k] IN
         IF Skipped(option, field)
         THEN PBToModelNullable_NoWarning(args, option, k + 1, st)
         ELSE IF field.Col.NotNull \/ field.Type = "[]byte"
         THEN PBToModelNullable_NoWarning(args, option, k + 1, st)
         ELSE IF field.Type = "mysql.NullTime"
         THEN PBToModelNullable_NoWarning(args, option, k + 1,
                [body |-> Append(st.body, Stmt("ifNotNilTimestamp", field, "")),
                 log |-> st.log])
         ELSE IF field.Type \in DOMAIN args.WrapperTypeMap
         THEN PBToModelNullable_NoWarning(args, option, k + 1,
                [body |-> Append(st.body,
                                 Stmt("ifNotNilWrapper", field, args.WrapperTypeMap[field.Type])),
                 log |-> st.log])
         ELSE PBToModelNullable_NoWarning(args, option, k + 1, st)

\* PBToModel, second loop.  st = [body, log]
RECURSIVE PBToModelNullable(_, _, _, _)
PBToModelNullable(args, option, k, st) ==
    IF k > Len(option.Type.Fields) THEN st
    ELSE LET field == option.Type.Fields[k] IN
         IF Skipped(option, field)
         THEN PBToModelNullable(args, option, k + 1, st)
         ELSE IF field.Col.NotNull \/ field.Type = "[]byte"
         THEN PBToModelNullable(args, option, k + 1, st)
         ELSE IF field.Type = "mysql.NullTime"
         THEN PBToModelNullable(args, option, k + 1,
                [body |-> Append(st.body, Stmt("ifNotNilTimestamp", field, "")),
                 log |-> st.log])
         ELSE IF field.Type \in DOMAIN args.WrapperTypeMap
         THEN PBToModelNullable(args, option, k + 1,
                [body |-> Append(st.body,
                                 Stmt("ifNotNilWrapper", field, args.WrapperTypeMap[field.Type])),
                 log |-> st.log])
         ELSE PBToModelNullable(args, option, k + 1,
                [body |-> st.body, log |-> Append(st.log, Warning(option, field))])

\* PBToModel(option): [body, shortName, pkg, cache, log]
PBToModel(args, cache, option) ==
    IF ~option.ModelToPB THEN NoBody(cache)
    ELSE LET sn == shortname(args, cache, option.Type.Name, <<>>)
             s1 == PBToModelAssign(args, option, 1, [body |-> <<>>, fa |-> <<>>])
             b1 == s1.body \o <<Line("struct")>> \o s1.fa \o <<Line("endStruct")>>
             s2 == PBToModelNullable(args, option, 1, [body |-> b1, log |-> <<>>])
         IN [body |-> Append(s2.body, Line("return")),
             shortName |-> sn.ret,
             pkg |-> <<>>,
             cache |-> sn.cache,
             log |-> s2.log]

-----------------------------------------------------------------------------
(* proto *)

\* strings.Compare(x, y) < 0, for the Sub values of the model
SubOrder == <<"a", "b", "c">>
IndexOf(x) == CHOOSE i \in 1..Len(SubOrder) : SubOrder[i] = x
Less(x, y) == IndexOf(x.Sub) < IndexOf(y.Sub)

\* sort.Stable(pc): x goes behind the last element that is not greater
RECURSIVE insertStable(_, _)
insertStable(sorted, x) ==
    IF sorted = <<>> THEN <<x>>
    ELSE LET last == sorted[Len(sorted)] IN
         IF Less(x, last)
         THEN Append(insertStable(SubSeq(sorted, 1, Len(sorted) - 1), x), last)
         ELSE Append(sorted, x)

RECURSIVE sortStable(_)
sortStable(pc) ==
    IF pc = <<>> THEN <<>>
    ELSE insertStable(sortStable(SubSeq(pc, 1, Len(pc) - 1)), pc[Len(pc)])

\* the imports of the fields of one option.  imports holds the paths in the
\* order they were first seen
RECURSIVE protoImportsOfFields(_, _, _, _)
protoImportsOfFields(args, p, k, imports) ==
    IF k > Len(p.Type.Fields) THEN imports
    ELSE LET f == p.Type.Fields[k] IN
         IF Skipped(p, f)
         THEN protoImportsOfFields(args, p, k + 1, imports)
         ELSE IF f.Type \in DOMAIN args.ImportMap
                 /\ args.ImportMap[f.Type] \notin Range(imports)
         THEN protoImportsOfFields(args, p, k + 1, Append(imports, args.ImportMap[f.Type]))
         ELSE protoImportsOfFields(args, p, k + 1, imports)

RECURSIVE protoImports(_, _, _, _)
protoImports(args, pc, j, imports) ==
    IF j > Len(pc) THEN imports
    ELSE protoImports(args, pc, j + 1, protoImportsOfFields(args, pc[j], 1, imports))

\* the type a field is declared with in its message
protoFieldType(args, f) ==
    IF f.Type = "mysql.NullTime" \/ f.Type = "time.Time" THEN "google.protobuf.Timestamp"
    ELSE IF f.Type \in DOMAIN args.WrapperTypeMap THEN args.WrapperTypeMap[f.Type]
    ELSE IF f.Type \in DOMAIN args.ToPBTypeMap THEN args.ToPBTypeMap[f.Type]
    ELSE f.Type

protoDef(args, f, count) ==
    [typ |-> protoFieldType(args, f),
     wrapper |-> f.Type \in DOMAIN args.WrapperTypeMap
                 /\ f.Type # "mysql.NullTime" /\ f.Type # "time.Time",
     col |-> f.Col.ColumnName, number |-> count, comment |-> f.Comment]

\* the declarations of one message with count++ ahead of the SkipFields test
RECURSIVE protoFieldsDef_CountsSkipped(_, _, _, _, _)
protoFieldsDef_CountsSkipped(args, p, k, fieldsDef, count) ==
    IF k > Len(p.Type.Fields) THEN fieldsDef
    ELSE LET f == p.Type.Fields[k] IN
         IF Skipped(p, f)
         THEN protoFieldsDef_CountsSkipped(args, p, k + 1, fieldsDef, count + 1)
         ELSE protoFieldsDef_CountsSkipped(args, p, k + 1,
                                           Append(fieldsDef, protoDef(args, f, count)),
                                           count + 1)

\* the field declarations of one message, count being the next field number
RECURSIVE protoFieldsDef(_, _, _, _, _)
protoFieldsDef(args, p, k, fieldsDef, count) ==
    IF k > Len(p.Type.Fields) THEN fieldsDef
    ELSE LET f == p.Type.Fields[k] IN
         IF Skipped(p, f)
         THEN protoFieldsDef(args, p, k + 1, fieldsDef, count)
         ELSE protoFieldsDef(args, p, k + 1, Append(fieldsDef, protoDef(args, f, count)),
                             count + 1)

protoMessage(args, p) ==
    [name |-> p.Type.Name, fieldsDef |-> protoFieldsDef(args, p, 1, <<>>, 1)]

\* proto reading the import service before it sorts the slice
proto_ServiceBeforeSort(args, pc) ==
    IF Len(pc) = 0
    THEN [empty |-> TRUE, package |-> <<>>, goPackage |-> <<>>, imports |-> <<>>,
          messages |-> <<>>, pc |-> pc]
    ELSE LET sorted == sortStable(pc)
             svc == pc[1].ModelToPBConfig.ImportService
         IN [empty |-> FALSE,
             package |-> ProtoName(svc),
             goPackage |-> goPackageName(svc),
             imports |-> protoImports(args, sorted, 1, <<>>),
             messages |-> [j \in 1..Len(sorted) |-> protoMessage(args, sorted[j])],
             pc |-> sorted]

\* proto(pc): [empty, package, goPackage, imports, messages, pc], pc as the
\* call leaves the slice
proto(args, pc) ==
    IF Len(pc) = 0
    THEN [empty |-> TRUE, package |-> <<>>, goPackage |-> <<>>, imports |-> <<>>,
          messages |-> <<>>, pc |-> pc]
    ELSE LET sorted == sortStable(pc)
             svc == sorted[1].ModelToPBConfig.ImportService
         IN [empty |-> FALSE,
             package |-> ProtoName(svc),
             goPackage |-> goPackageName(svc),
             imports |-> protoImports(args, sorted, 1, <<>>),
             messages |-> [j \in 1..Len(sorted) |-> protoMessage(args, sorted[j])],
             pc |-> sorted]

-----------------------------------------------------------------------------
(* One generation run over a ProtoConfig: proto on the options, modelToPB  *)
(* and PBToModel on the option of a type                                   *)

MaxProtoFields == 3

ProtoFieldSeq ==
    << [Field("ID", "int", "id", TRUE) EXCEPT !.Comment = "// primary key"],
       Field("CreatedAt", "time.Time", "created_at", TRUE),
       Field("Nick", "sql.NullString", "nick", FALSE),
       Field("DeletedAt", "mysql.NullTime", "deleted_at", FALSE),
       Field("Score", "sql.NullFloat64", "score", FALSE),
       Field("Data", "[]byte", "data", FALSE) >>

ProtoFieldLists ==
    { SelectSeq(ProtoFieldSeq, LAMBDA f : f \in S) :
        S \in {X \in SUBSET Range(ProtoFieldSeq) : Cardinality(X) <= MaxProtoFields} }

ImportService == <<"u", "s", "e", "r", "-", "s", "v", "c", "_", "v", "1">>

MethodsOption(typeName, fields, sub, m2pb, skipFields) ==
    [Type |-> [Name |-> typeName, Fields |-> fields],
     Sub |-> sub,
     ModelToPB |-> m2pb,
     ModelToPBConfig |-> [ImportService |-> ImportService, SkipFields |-> skipFields]]

\* the types the conversion funcs are rendered for: OrderItem has the short
\* name oi, SqlQueryLog the short name sql, which is a default conflict
OptionTypeNames ==
    { <<"O", "r", "d", "e", "r", "I", "t", "e", "m">>,
      <<"S", "q", "l", "Q", "u", "e", "r", "y", "L", "o", "g">> }

\* the options of the type the conversion funcs are rendered for
Options ==
    { MethodsOption(typeName, fields, sub, m2pb, skipFields) :
        typeName \in OptionTypeNames,
        fields \in ProtoFieldLists, sub \in {"a", "c"}, m2pb \in BOOLEAN,
        skipFields \in SUBSET {"id", "created_at", "nick", "deleted_at", "score", "data"} }

\* the option of another type in the same ProtoConfig
OtherOption ==
    [MethodsOption(<<"G", "r", "o", "u", "p">>,
                   <<ProtoFieldSeq[1], ProtoFieldSeq[5], ProtoFieldSeq[3]>>, "b", TRUE, {"score"})
        EXCEPT !.ModelToPBConfig.ImportService = <<"g", "r", "o", "u", "p", "-", "s", "v", "c">>]

ProtoConfigs(option) == {<<>>, <<option>>, <<option, OtherOption>>, <<OtherOption, option>>}

BridgeFuncs == {"proto", "modelToPB", "PBToModel"}

\* the text a bridge func hands back to the template engine: its result
\* without the state it leaves behind (the sorted slice, the cache, the log)
TextOf(fn, r) ==
    IF fn = "proto"
    THEN [empty |-> r.empty, package |-> r.package, goPackage |-> r.goPackage,
          imports |-> r.imports, messages |-> r.messages]
    ELSE [body |-> r.body, shortName |-> r.shortName, pkg |-> r.pkg]

Generates(fn, r) == generated' = [generated EXCEPT ![fn] = Append(@, TextOf(fn, r))]

InitProto ==
    /\ a = ArgType(FALSE, <<"V", "a", "l">>)
    /\ \E option \in Options :
          /\ option.ModelToPBConfig.SkipFields \subseteq
                {f.Col.ColumnName : f \in Range(option.Type.Fields)}
          /\ in \in [option : {option}, pc : ProtoConfigs(option)]
    /\ ShortNameTypeMap = <<>>
    /\ call = NoCall
    /\ warnings = <<>>
    /\ rendered = {}
    /\ generated = [fn \in BridgeFuncs |-> <<>>]

Call_proto ==
    /\ "proto" \notin rendered
    /\ LET r == proto(a, in.pc) IN
       /\ call' = [fn |-> "proto", ret |-> r]
       /\ in' = [in EXCEPT !.pc = r.pc]
       /\ Generates("proto", r)
    /\ rendered' = rendered \cup {"proto"}
    /\ UNCHANGED <<a, ShortNameTypeMap, warnings>>

Call_modelToPB ==
    /\ "modelToPB" \notin rendered
    /\ LET r == modelToPB(a, ShortNameTypeMap, in.option) IN
       /\ call' = [fn |-> "modelToPB", ret |-> r]
       /\ ShortNameTypeMap' = r.cache
       /\ warnings' = warnings \o r.log
       /\ Generates("modelToPB", r)
    /\ rendered' = rendered \cup {"modelToPB"}
    /\ UNCHANGED <<a, in>>

Call_PBToModel ==
    /\ "PBToModel" \notin rendered
    /\ LET r == PBToModel(a, ShortNameTypeMap, in.option) IN
       /\ call' = [fn |-> "PBToModel", ret |-> r]
       /\ ShortNameTypeMap' = r.cache
       /\ warnings' = warnings \o r.log
       /\ Generates("PBToModel", r)
    /\ rendered' = rendered \cup {"PBToModel"}
    /\ UNCHANGED <<a, in>>

NextProto == Call_proto \/ Call_modelToPB \/ Call_PBToModel

SpecProto == InitProto /\ [][NextProto]_vars

\* Generation is run again by the same process on the same model and
\* configuration: the cache, the log and the sorted slice stay as they are.
MaxRuns == 2

Rerun ==
    /\ rendered = BridgeFuncs
    /\ \A fn \in BridgeFuncs : Len(generated[fn]) < MaxRuns
    /\ rendered' = {}
    /\ call' = NoCall
    /\ UNCHANGED <<a, in, ShortNameTypeMap, warnings, generated>>

NextRerun == NextProto \/ Rerun

SpecRerun == InitProto /\ [][NextRerun]_vars

-----------------------------------------------------------------------------
(* shortname: stability, conflicts, reserved names *)

ShortNameReturned == call.fn = "shortname" /\ ~call.panic

\* what shortname returns for typ and scopeConflicts when the map is empty
FirstShortName(typ, scopeConflicts) == shortname(a, <<>>, typ, scopeConflicts).ret

\* the entry a first call without conflict scopes writes for typ
FirstEntry(typ) == shortname(a, <<>>, typ, <<>>).cache[typ]

\* C5: every call shortname(T, S) returns what the first call of the run with
\* an empty map returns for T and S, so the same as every earlier call with T
\* and S; an entry of the map is never changed once written, and it is written
\* with the same value whatever the conflict scopes of the writing call.
C5_StableWithinRun ==
    [][ /\ \A typ \in DOMAIN ShortNameTypeMap :
              /\ typ \in DOMAIN ShortNameTypeMap'
              /\ ShortNameTypeMap'[typ] = ShortNameTypeMap[typ]
        /\ \A typ \in DOMAIN ShortNameTypeMap' :
              ShortNameTypeMap'[typ] = FirstEntry(typ)
        /\ (call'.fn = "shortname" /\ ~call'.panic) =>
              call'.ret = FirstShortName(call'.typ, call'.scopeConflicts)
      ]_vars

\* a call found its type in the map and returned the entry with the suffix
C5_Witness ==
    /\ ShortNameReturned
    /\ call.cached
    /\ call.scopeConflicts # <<>>
    /\ call.ret # ShortNameTypeMap[call.typ]

ConflictSet(scopeConflicts) ==
    DefaultConflicts \cup UNION {Range(c.names) : c \in Range(scopeConflicts)}

\* C6: the identifier shortname returns is not in the conflict set (the default
\* imported packages and the scope names); when the computed identifier is in
\* the set, the result is the identifier followed by the suffix.
C6_CollisionFree ==
    ShortNameReturned =>
        LET conflicts == ConflictSet(call.scopeConflicts)
            v == ShortNameTypeMap[call.typ]
        IN /\ call.ret \notin conflicts
           /\ v \in conflicts => call.ret = v \o a.NameConflictSuffix

\* the identifier built from the word initials of typ, words "id" dropped
InitialsOf(typ) == Join(initialsLoop(Split(ToLower(CamelToSnake(typ))), 1, <<>>))

\* C7: when the initials are a key of goReservedNames the mapped alias takes
\* their place, and the identifier shortname returns is never a key of
\* goReservedNames.
C7_NeverReserved ==
    ShortNameReturned =>
        /\ InitialsOf(call.typ) \in DOMAIN goReservedNames =>
              ShortNameTypeMap[call.typ] = goReservedNames[InitialsOf(call.typ)]
        /\ call.ret \notin DOMAIN goReservedNames

-----------------------------------------------------------------------------
(* The protobuf bridge: field numbers, skipped fields, unmapped fields *)

ProtoReturned == call.fn = "proto" /\ ~call.ret.empty
ConversionFuncs == {"modelToPB", "PBToModel"}

IsSkipped(p, f) == f.Col.ColumnName \in p.ModelToPBConfig.SkipFields
DeclaredFields(p) == SelectSeq(p.Type.Fields, LAMBDA f : ~IsSkipped(p, f))
PositionOf(p, col) == CHOOSE k \in 1..Len(p.Type.Fields) : p.Type.Fields[k].Col.ColumnName = col
NumberOf(fieldsDef, col) ==
    (CHOOSE k \in 1..Len(fieldsDef) : fieldsDef[k].col = col)
WithoutSkip(p, col) ==
    [p EXCEPT !.ModelToPBConfig.SkipFields = p.ModelToPBConfig.SkipFields \ {col}]

\* C8: in every message the declared fields are the fields not in the skip
\* set, in declaration order, numbered 1, 2, 3, ...; taking a field out of the
\* skip set raises by one the number of every field declared after it and
\* leaves the numbers of the fields before it.
C8_FieldNumbers ==
    ProtoReturned =>
        \A j \in 1..Len(call.ret.messages) :
            LET p == in.pc[j]
                defs == call.ret.messages[j].fieldsDef
                kept == DeclaredFields(p)
            IN /\ Len(defs) = Len(kept)
               /\ \A k \in 1..Len(defs) :
                     defs[k].col = kept[k].Col.ColumnName /\ defs[k].number = k
               /\ \A col \in p.ModelToPBConfig.SkipFields :
                     LET defs2 == proto(a, <<WithoutSkip(p, col)>>).messages[1].fieldsDef IN
                     /\ defs2[NumberOf(defs2, col)].number = NumberOf(defs2, col)
                     /\ \A k \in 1..Len(defs) :
                           defs2[NumberOf(defs2, defs[k].col)].number =
                               IF PositionOf(p, defs[k].col) > PositionOf(p, col)
                               THEN defs[k].number + 1
                               ELSE defs[k].number

\* proto has written two messages, one of them with a skipped field between
\* two declared ones
C8_Witness ==
    /\ ProtoReturned
    /\ Len(call.ret.messages) = 2
    /\ \E j \in 1..2 :
          LET p == in.pc[j] IN
          /\ p = in.option
          /\ Len(p.Type.Fields) = 3
          /\ ~IsSkipped(p, p.Type.Fields[1])
          /\ IsSkipped(p, p.Type.Fields[2])
          /\ ~IsSkipped(p, p.Type.Fields[3])
          /\ call.ret.messages[j].fieldsDef[2].number = 2

ColumnsIn(stmts) == {stmts[k].col : k \in 1..Len(stmts)}
SkippedFields(p) == {f \in Range(p.Type.Fields) : IsSkipped(p, f)}
ImportsOfDeclared(pc) ==
    { a.ImportMap[f.Type] :
        f \in { g \in UNION {Range(DeclaredFields(pc[j])) : j \in 1..Len(pc)} :
                  g.Type \in DOMAIN a.ImportMap } }

\* C9: a field whose column is in the skip set has no declaration in its
\* message and adds no import, has no statement in the body of modelToPB or of
\* PBToModel, and no warning is logged for it.
C9_SkippedEverywhere ==
    /\ ProtoReturned =>
          /\ \A j \in 1..Len(call.ret.messages) :
                \A f \in SkippedFields(in.pc[j]) :
                    f.Col.ColumnName \notin ColumnsIn(call.ret.messages[j].fieldsDef)
          /\ Range(call.ret.imports) = ImportsOfDeclared(in.pc)
    /\ call.fn \in ConversionFuncs =>
          \A f \in SkippedFields(in.option) : f.Col.ColumnName \notin ColumnsIn(call.ret.body)
    /\ \A f \in SkippedFields(in.option) :
          \A k \in 1..Len(warnings) : warnings[k].name # f.Name

\* a whole run over an option that skips the unmapped nullable field and a
\* wrapper field, and declares another field
C9_Witness ==
    /\ rendered = {"proto", "modelToPB", "PBToModel"}
    /\ in.option.ModelToPB
    /\ in.option \in Range(in.pc)
    /\ {"score", "nick"} \subseteq {f.Col.ColumnName : f \in SkippedFields(in.option)}
    /\ Len(DeclaredFields(in.option)) = 1
    /\ call.fn \in ConversionFuncs
    /\ Len(call.ret.body) > 3

\* the nullable fields of p that are not []byte, not skipped, have no wrapper
\* mapping and are not mysql.NullTime
UnmappedNullable(p) ==
    { f \in Range(p.Type.Fields) :
        /\ ~f.Col.NotNull
        /\ f.Type # "[]byte"
        /\ ~IsSkipped(p, f)
        /\ f.Type \notin DOMAIN a.WrapperTypeMap
        /\ f.Type # "mysql.NullTime" }

WarningsFor(p, f) ==
    Cardinality({k \in 1..Len(warnings) :
                    warnings[k].typ = p.Type.Name /\ warnings[k].name = f.Name})

MessageOf(p) == call.ret.messages[CHOOSE j \in 1..Len(in.pc) : in.pc[j] = p]

RunComplete == rendered = {"proto", "modelToPB", "PBToModel"}

\* what C10 says of the declaration and of the conversion bodies
UnmappedDeclaredNotConverted(p, f) ==
    /\ (ProtoReturned /\ p \in Range(in.pc)) =>
          f.Col.ColumnName \in ColumnsIn(MessageOf(p).fieldsDef)
    /\ call.fn \in ConversionFuncs => f.Col.ColumnName \notin ColumnsIn(call.ret.body)

\* C10 as stated: an unmapped nullable field is declared by proto, has no
\* statement in either conversion body, and one run (each func called once)
\* logs exactly one warning for it.
C10_AsStated ==
    \A f \in UnmappedNullable(in.option) :
        /\ UnmappedDeclaredNotConverted(in.option, f)
        /\ RunComplete => WarningsFor(in.option, f) = 1

\* C10, amended: ... and each of modelToPB and PBToModel logs exactly one
\* warning for it when option.ModelToPB is set (two in a run), and none when
\* it is not set.
C10_WarningPerConversionFunc ==
    \A f \in UnmappedNullable(in.option) :
        /\ UnmappedDeclaredNotConverted(in.option, f)
        /\ WarningsFor(in.option, f) =
              IF in.option.ModelToPB THEN Cardinality(rendered \cap ConversionFuncs) ELSE 0

\* a whole run over an option with an unmapped nullable field: declared by
\* proto, and warned about twice
C10_Witness ==
    /\ RunComplete
    /\ call.fn = "proto"
    /\ in.option \in Range(in.pc)
    /\ in.option.ModelToPB
    /\ \E f \in UnmappedNullable(in.option) :
          /\ f.Col.ColumnName \in ColumnsIn(MessageOf(in.option).fieldsDef)
          /\ WarningsFor(in.option, f) = 2

-----------------------------------------------------------------------------
(* Running the generation again *)

\* C11: every bridge func (proto, modelToPB, PBToModel), called again on the
\* same model and configuration with the short name cache and the sorted
\* option slice as the earlier run left them, returns the text it returned
\* the first time.
C11_SecondRunIdentical ==
    \A fn \in BridgeFuncs :
        \A i \in 1..Len(generated[fn]) : generated[fn][i] = generated[fn][1]

\* both runs done: two options were sorted and given messages, the short
\* name came from the cache the second time, and the bodies have statements
C11_Witness ==
    /\ \A fn \in BridgeFuncs : Len(generated[fn]) = MaxRuns
    /\ Len(generated["proto"][MaxRuns].messages) = 2
    /\ generated["proto"][MaxRuns].imports # <<>>
    /\ in.option.Type.Name \in DOMAIN ShortNameTypeMap
    /\ generated["modelToPB"][MaxRuns].shortName # <<>>
    /\ Len(generated["modelToPB"][MaxRuns].body) > 3
    /\ Len(generated["PBToModel"][MaxRuns].body) > 3

-----------------------------------------------------------------------------
(* Unknown kinds *)

DeclaredTemplateTypes ==
    {EnumTemplate, ProcTemplate, TypeTemplate, ForeignKeyTemplate, IndexTemplate, MapTemplate,
     QueryTypeTemplate, QueryTemplate, OptionalTemplate, TypeProtoTemplate, XOTemplate}

RecognizedScopeKinds == {"string", "[]*Field", "[]*QueryParam"}

\* C12: RelType.String panics exactly for the values other than Table and
\* View, TemplateType.String exactly for the values outside the declared
\* template kinds, shortname exactly when one of the supplied conflict
\* scopes is not a string, a []*Field or a []*QueryParam; a call that
\* panics returns nothing.
C12_UnknownKindPanics ==
    /\ call.fn = "RelType.String" =>
          /\ call.panic <=> call.rt \notin {Table, View}
          /\ call.panic => call.ret = ""
    /\ call.fn = "TemplateType.String" =>
          /\ call.panic <=> call.tt \notin DeclaredTemplateTypes
          /\ call.panic => call.ret = ""
    /\ call.fn = "shortname" =>
          /\ call.panic <=>
                \E k \in 1..Len(call.scopeConflicts) :
                    call.scopeConflicts[k].kind \notin RecognizedScopeKinds
          /\ call.panic => call.ret = <<>>

\* shortname has panicked on a scope of another type that follows a string
C12_Witness ==
    /\ call.fn = "shortname"
    /\ call.panic
    /\ call.ret = <<>>
    /\ Len(call.scopeConflicts) = 2
    /\ call.scopeConflicts[1].kind \in RecognizedScopeKinds
    /\ call.scopeConflicts[2].kind \notin RecognizedScopeKinds

-----------------------------------------------------------------------------
(* retype and convext *)

\* typ is n slice markers in front of a bare name that starts with none
SplitsAs(typ, n, bare) == typ = Slices(n, bare) /\ ~HasPrefix(bare, SliceOf)

\* the bare name as retype is to hand it back
Qualified(bare) ==
    IF bare \notin a.KnownTypeMap /\ a.CustomTypePackage # <<>>
    THEN a.CustomTypePackage \o <<".">> \o bare
    ELSE bare

\* C13: retype returns a type with a "." in it unchanged; of any other type
\* it strips all leading slice markers, puts the custom type package and a
\* "." in front of the bare name exactly when the bare name is not a known
\* type and a package is configured, and puts the same number of slice
\* markers back in front; a known bare name comes back unchanged.
C13_Retype ==
    call.fn = "retype" =>
        IF Contains(in.typ, ".")
        THEN call.ret = in.typ
        ELSE \E n \in 0..Len(in.typ) :
                LET bare == SubSeq(in.typ, n * Len(SliceOf) + 1, Len(in.typ)) IN
                /\ SplitsAs(in.typ, n, bare)
                /\ call.ret = Slices(n, Qualified(bare))
                /\ bare \in a.KnownTypeMap => call.ret = in.typ

\* a slice of slices of a custom type has been given its package
C13_Witness ==
    /\ call.fn = "retype"
    /\ a.CustomTypePackage # <<>>
    /\ in.typ = Slices(MaxSlices, <<"M", "o", "n", "e", "y">>)
    /\ call.ret = Slices(MaxSlices, a.CustomTypePackage \o <<".">> \o <<"M", "o", "n", "e", "y">>)

\* the parts of the expression convext is to build
ConvBase == ConvPrefix \o <<".">> \o in.f.Name
ConvNullable == HasPrefix(in.f.Type, SqlNull)
ConvAccessor == SubSeq(in.f.Type, Len(SqlNull) + 1, Len(in.f.Type))
ConvCompared == IF ConvNullable THEN ToLower(ConvAccessor) ELSE in.f.Type
ConvInner == IF ConvNullable THEN ConvBase \o <<".">> \o ConvAccessor ELSE ConvBase

\* C14: convext returns prefix.Name when the two types are the same;
\* otherwise a source type that starts with sql.Null gets the rest of the
\* type appended as accessor and is compared as the lower-cased rest, and
\* the expression is put inside a conversion call to the destination type
\* exactly when the compared type differs from the destination type.
C14_Convext ==
    call.fn = "convext" =>
        IF in.f.Type = in.t.Type
        THEN call.ret = ConvBase
        ELSE IF ConvCompared # in.t.Type
             THEN call.ret = in.t.Type \o <<"(">> \o ConvInner \o <<")">>
             ELSE call.ret = ConvInner

\* a sql.NullInt64 assigned to an int64 is unwrapped and not converted
C14_Witness ==
    /\ call.fn = "convext"
    /\ in.f.Type = <<"s", "q", "l", ".", "N", "u", "l", "l", "I", "n", "t", "6", "4">>
    /\ in.t.Type = <<"i", "n", "t", "6", "4">>
    /\ call.ret = ConvPrefix \o <<".">> \o in.f.Name \o <<".", "I", "n", "t", "6", "4">>

-----------------------------------------------------------------------------
(* What the SQL clause builders are to return, stated over the field list  *)
(* with the ignored fields filtered out                                    *)

QueryFuncs == {"colnamesquery", "colnamesquerymulti"}
ValueFuncs == {"colvals", "colvalsmulti"} \cup QueryFuncs
ListFuncs ==
    {"colnames", "colnamesmulti", "colnamesgeo", "colnamesgeomulti", "colprefixnames",
     "fieldnames", "fieldnamesmulti"} \cup ValueFuncs

IgnoredNames == {f.Name : f \in Range(in.ignore)}
NotIgnored(f) == f.Name \notin IgnoredNames
KeptFields == SelectSeq(in.fields, NotIgnored)

IsGeo(f) == f.Type \in a.GeoInfoTypeMap
GeoValue == T("ST_GeomFromWKB(?)")
DeletedPredicate == T("is_deleted = false")
ValueAt(f, pos) == IF IsGeo(f) THEN GeoValue ELSE NthParam(pos)
ColumnOf(f) ==
    IF a.EscapeColumnNames THEN Escape(ColumnEsc, f.Col.ColumnName) ELSE T(f.Col.ColumnName)

\* the entry of field f, the one at position pos, in the output of fn
EntryOf(fn, f, pos) ==
    CASE fn \in {"colnames", "colnamesmulti"} -> <<ColumnOf(f)>>
      [] fn \in {"colnamesgeo", "colnamesgeomulti"} ->
            IF IsGeo(f) THEN <<T("ST_AsBinary("), ColumnOf(f), T(")")>> ELSE <<ColumnOf(f)>>
      [] fn = "colprefixnames" -> <<T(call.prefix), T("."), ColumnOf(f)>>
      [] fn \in {"fieldnames", "fieldnamesmulti"} -> <<T(call.prefix), T("."), T(f.Name)>>
      [] fn \in {"colvals", "colvalsmulti"} -> <<ValueAt(f, pos)>>
      [] fn \in QueryFuncs -> <<ColumnOf(f), T(" = "), ValueAt(f, pos)>>

RECURSIVE JoinEntries(_, _)
JoinEntries(entries, sep) ==
    IF entries = <<>> THEN <<>>
    ELSE IF Len(entries) = 1 THEN entries[1]
    ELSE entries[1] \o <<sep>> \o JoinEntries(Tail(entries), sep)

ExpectedEntries ==
    JoinEntries([k \in 1..Len(KeptFields) |->
                    EntryOf(call.fn, KeptFields[k], call.start + k - 1)], T(call.sep))

\* C1: every clause builder emits one entry for exactly the fields whose Name
\* is not in the ignore set, in the order of the input list (the assignment
\* clauses may carry the soft-delete predicate after the entries).
C1_ExactlyNotIgnoredInOrder ==
    call.fn \in ListFuncs =>
        \/ call.ret = ExpectedEntries
        \/ /\ call.fn \in QueryFuncs
           /\ call.ret = ExpectedEntries \o <<T(call.sep), DeletedPredicate>>

\* a builder has run on a list with an ignored field between two kept ones
C1_Witness ==
    /\ call.fn \in ListFuncs
    /\ Len(in.fields) = 3
    /\ ~NotIgnored(in.fields[2])
    /\ NotIgnored(in.fields[1]) /\ NotIgnored(in.fields[3])
    /\ Len(call.ret) > 1

IsValue(t) == t.k = "NthParam" \/ t = GeoValue
ValuesOf(str) == SelectSeq(str, IsValue)

\* C2: the k-th emitted field (from 0) takes position start+k, geometry-typed
\* or not; the positions rendered increase strictly; ignored fields take none.
C2_PositionPerEmittedField ==
    call.fn \in ValueFuncs =>
        LET vals == ValuesOf(call.ret) IN
        /\ Len(vals) = Len(KeptFields)
        /\ \A k \in 1..Len(vals) : vals[k] = ValueAt(KeptFields[k], call.start + k - 1)
        /\ \A j, k \in 1..Len(vals) :
              (j < k /\ vals[j].k = "NthParam" /\ vals[k].k = "NthParam")
                  => vals[j].n < vals[k].n

\* an offset call over an ignored field, then a geometry field, then a plain
\* field, which is numbered startCount+1
C2_Witness ==
    /\ call.fn = "colnamesquerymulti"
    /\ call.start > 0
    /\ Len(in.fields) = 3
    /\ ~NotIgnored(in.fields[1])
    /\ IsGeo(in.fields[2]) /\ NotIgnored(in.fields[2])
    /\ ~IsGeo(in.fields[3]) /\ NotIgnored(in.fields[3])
    /\ NthParam(call.start + 1) \in Range(call.ret)

CountOf(str, t) == Cardinality({k \in 1..Len(str) : str[k] = t})

SoftDeleteSurvived == \E k \in 1..Len(KeptFields) : KeptFields[k].Name = "is_deleted"

\* C3: the soft-delete predicate is appended once, last, behind the separator
\* and the last field clause, iff hasDeletedField and no soft-delete field
\* survived; otherwise it is not in the output.
C3_SoftDeletePredicate ==
    call.fn \in QueryFuncs =>
        LET n == Len(call.ret) IN
        IF call.hasDeletedField /\ ~SoftDeleteSurvived
        THEN /\ CountOf(call.ret, DeletedPredicate) = 1
             /\ n >= 2
             /\ call.ret[n] = DeletedPredicate
             /\ call.ret[n - 1] = T(call.sep)
             /\ KeptFields # <<>> =>
                   /\ n >= 3
                   /\ call.ret[n - 2] =
                        ValueAt(KeptFields[Len(KeptFields)], call.start + Len(KeptFields) - 1)
        ELSE CountOf(call.ret, DeletedPredicate) = 0

\* the soft-delete field is in the list and ignored, so the predicate follows
\* the last field clause
C3_Witness ==
    /\ call.fn \in QueryFuncs
    /\ call.hasDeletedField
    /\ \E k \in 1..Len(in.fields) : in.fields[k].Name = "is_deleted"
    /\ ~SoftDeleteSurvived
    /\ Len(KeptFields) = 2
    /\ call.ret[Len(call.ret)] = DeletedPredicate

IgnoredFieldCount == Cardinality({k \in 1..Len(in.fields) : ~NotIgnored(in.fields[k])})

\* C4 as stated: colcount returns 1 + (len(fields) - len(ignoreNames)) for
\* every list of ignore names.
C4_AsStated ==
    call.fn = "colcount" => call.ret = 1 + (Len(in.fields) - Len(in.ignore))

\* C4, amended: colcount returns 1 + (len(fields) - the number of fields whose
\* Name is among the ignore names).
C4_CountsKeptFields ==
    call.fn = "colcount" => call.ret = 1 + (Len(in.fields) - IgnoredFieldCount)

\* colcount has run with a name given twice that matches a field
C4_Witness ==
    /\ call.fn = "colcount"
    /\ Len(in.ignore) = 2
    /\ in.ignore[1] = in.ignore[2]
    /\ IgnoredFieldCount = 1
    /\ Len(in.fields) = 3


-----------------------------------------------------------------------------
(* Composed clauses *)

IsPlain(t) == t.k = "NthParam"
PlainValues(str) == SelectSeq(str, IsPlain)
PositionsOf(str) == {t.n : t \in Range(PlainValues(str))}
PlainFields(fields) == SelectSeq(fields, LAMBDA f : ~IsGeo(f))

\* C15: for a list of fields with unique names and a primary key that is a
\* list of some of them without duplicates, the assignments over the other
\* fields (numbered from 0) and the conditions over the primary key fields
\* (numbered from getstartcount(fields, pkFields)) take one position per
\* field: no position is used by both clauses, and in the order of the
\* statement the j-th value (from 0) is numbered j, so that the positions
\* are those of 0 .. len(fields)-1.
C15_ComposedPositions ==
    call.fn = "update" =>
        LET vals == ValuesOf(call.set) \o ValuesOf(call.where) IN
        /\ Len(vals) = Len(in.fields)
        /\ \A j \in 1..Len(vals) : vals[j] = GeoValue \/ vals[j] = NthParam(j - 1)
        /\ PositionsOf(call.set) \cap PositionsOf(call.where) = {}
        /\ Len(PlainValues(call.set)) + Len(PlainValues(call.where)) = Len(PlainFields(in.fields))
        /\ PositionsOf(call.set) \cup PositionsOf(call.where) \subseteq 0..(Len(in.fields) - 1)

\* three fields, the first of them the primary key: the assignments take
\* positions 0 and 1 (one of them for a geometry value), the condition takes 2
C15_Witness ==
    /\ call.fn = "update"
    /\ Len(in.fields) = 3
    /\ call.pkFields = <<in.fields[1]>>
    /\ call.start = 2
    /\ \E k \in 2..3 : IsGeo(in.fields[k])
    /\ Len(ValuesOf(call.set)) = 2
    /\ PositionsOf(call.where) = {2}

-----------------------------------------------------------------------------
(* The separator *)

\* C16: what colnamesquery and colnamesquerymulti return never begins and
\* never ends with the separator, also when no field is left after the
\* ignored ones and hasDeletedField is set.
C16_SeparatorJoined ==
    (call.fn \in QueryFuncs /\ call.ret # <<>>) =>
        /\ call.ret[1] # T(call.sep)
        /\ call.ret[Len(call.ret)] # T(call.sep)

=============================================================================
